---- MODULE Spec2Model ----
(***************************************************************************)
(* Model of the traffic-signal service: the /update and /status handlers   *)
(* of algo_api.py, the DynamicTrafficController of algorithm.py they       *)
(* drive, and aggregate_counts of the detection service (model_api.py).    *)
(*                                                                         *)
(* Units.  The code computes with floats; the model keeps each of them as  *)
(* a pair of integers, an exact value and the rounding of the double:      *)
(*   - instants are in tenths of a second (3.0 s = 30), and the clock is   *)
(*     read at whole seconds after start-up,                               *)
(*   - a green duration is the pair of its exact value in tenths of a      *)
(*     second and the number of ulps (-1, 0 or 1) by which the double the  *)
(*     code computes lies away from the double nearest to that value, for  *)
(*     normal 0..63, wait 0..12 and emergency 0..3,                        *)
(*   - a lane score is a pair: five times its exact value (wait_boost =    *)
(*     0.4 = 2/5) and the direction in which the doubles of the code       *)
(*     round it,                                                           *)
(* so that the pairs compare, and truncate, as the code's floats do.       *)
(*                                                                         *)
(* Optional values.  Python's None is the empty tuple and a value x that   *)
(* stands where None may stand is the tuple <<x>>, so that no string,      *)
(* 'None' included, is taken for None.                                     *)
(*                                                                         *)
(* Lane ids of one request are pairwise distinct (spec section 3: a lane   *)
(* id is unique within a controller instance); a lane id is any string,    *)
(* the empty one included.                                                 *)
(***************************************************************************)
EXTENDS Integers, Sequences, FiniteSets, TLC

\* ------------------------------------------------------------------------
\* Bounds of the exploration
\* ------------------------------------------------------------------------
MaxWait == 2
MaxTime == 61

\* the wall clock when the service starts (time.time() is positive)
StartTime == 1

\* gaps between two successive reads of the wall clock, in tenths of a second
Gaps == {0, 30}

\* the requests with lane ids ids and (normal, emergency) counts from readings
RequestsOn(ids, readings) ==
    { [i \in 1..Len(ids) |->
          [lane_id |-> ids[i], normal |-> r[i][1], emergency |-> r[i][2]]]
      : r \in [1..Len(ids) -> readings] }

\* two queues whose scores are equal once lane A has waited one cycle and
\* lane B none: 45 * (1 + 1 * 0.4) = 63
NearTie ==
    <<[lane_id |-> "A", normal |-> 45, emergency |-> 0],
      [lane_id |-> "B", normal |-> 63, emergency |-> 0]>>

\* the requests of a set in which at most one lane has a queue
OneQueue(reqs) ==
    { ld \in reqs : \A i, j \in 1..Len(ld) : ld[i].normal > 0 /\ ld[j].normal > 0 => i = j }

\* the requests explored: none, two lanes in both orders, three lanes with
\* at most one queue, and two lanes of which one has the empty string for
\* its id
Requests ==
    RequestsOn(<<>>, {})
      \cup RequestsOn(<<"A", "B">>, {<<0, 0>>, <<2, 0>>, <<0, 2>>})
      \cup {NearTie}
      \cup RequestsOn(<<"B", "A">>, {<<0, 0>>, <<2, 0>>})
      \cup OneQueue(RequestsOn(<<"A", "B", "C">>, {<<0, 0>>, <<2, 0>>}))
      \cup RequestsOn(<<"", "B">>, {<<0, 0>>, <<2, 0>>})

\* the increments random.randint(0, 3) draws
Arrivals == 0..3

\* ------------------------------------------------------------------------
\* Values
\* ------------------------------------------------------------------------
\* Python's None, and a value where None may stand
None == <<>>
Some(x) == <<x>>

NoTime == 0

Red == <<1, 0, 0>>
Yellow == <<0, 1, 0>>
Green == <<0, 0, 1>>

\* parameters the service passes to the constructor, and its defaults
min_green == 30
max_green == 120
clearance_rate_x10 == 25
wait_boost_x5 == 2
starvation_limit == 8
starvation_bonus_x5 == 5000

\* Python's truth value of an optional string: None and '' are false
Truthy(x) == x # None /\ x # Some("")

Range(s) == { s[i] : i \in 1..Len(s) }

EmptyMap == [l \in {} |-> 0]

Min(a, b) == IF a < b THEN a ELSE b
Max(a, b) == IF a > b THEN a ELSE b

\* Python's list.index for an element that is in the list (0-based)
IndexOf(s, x) == (CHOOSE i \in 1..Len(s) : s[i] = x /\ \A j \in 1..(i-1) : s[j] # x) - 1

VARIABLES
    controller,     \* the global controller object, or NoController
    current_lanes,  \* the global list of lane ids of the last registration
    lanes_data,     \* the body of the last /update request
    response,       \* what the last /update request returned
    now,            \* the wall clock when it was last read or a request was made
    observed,       \* the body of the last GET /status response
    workers,        \* the /update calls in progress, one per worker thread
    twin,           \* a second run of the controller on the same requests
    classifier,     \* the global classifier of the detection service
    detections,     \* the detections aggregate_counts is called with
    ml_counts       \* the lane input it has returned, None before it returns

vars == <<controller, current_lanes, lanes_data, response, now,
          observed, workers, twin, classifier, detections, ml_counts>>

NoController == [is_none |-> TRUE]

\* ------------------------------------------------------------------------
\* DynamicTrafficController
\* ------------------------------------------------------------------------

\* f"Lane_{i+1}" for i = k - 1
LaneName(k) == "Lane_" \o ToString(k)

\* __init__ as called by update_signal for n lanes
Constructed(n) ==
    [ is_none |-> FALSE,
      lane_ids |-> [k \in 1..n |-> LaneName(k)],
      lanes |-> [l \in { LaneName(k) : k \in 1..n } |->
                    [normal |-> 0, emergency |-> 0, wait |-> 0, state |-> Red]],
      current_green |-> None,
      green_started_at |-> NoTime,
      current_green_time |-> <<min_green, 0>>,
      last_emergency_lane |-> None ]

\* __init__ as called by update_signal, followed by the handler's overwrite
\* of lane_ids and lanes with the incoming lane ids
NewController(incoming_lanes) ==
    [ Constructed(Len(incoming_lanes)) EXCEPT
        !.lane_ids = incoming_lanes,
        !.lanes = [l \in Range(incoming_lanes) |->
                      [normal |-> 0, emergency |-> 0, wait |-> 0, state |-> Red]] ]

\* a snapshot that adds the reading to the normal count stored by the
\* previous cycle instead of replacing it
MergeData_AddsStored(c, ld) ==
    [l \in { ld[i].lane_id : i \in 1..Len(ld) } |->
        LET d == ld[CHOOSE i \in 1..Len(ld) : ld[i].lane_id = l]
        IN [normal |-> c.lanes[l].normal + d.normal, emergency |-> d.emergency,
            wait |-> c.lanes[l].wait]]

\* the working snapshot built at the start of update
MergeData(c, ld) ==
    [l \in { ld[i].lane_id : i \in 1..Len(ld) } |->
        LET d == ld[CHOOSE i \in 1..Len(ld) : ld[i].lane_id = l]
        IN [normal |-> d.normal, emergency |-> d.emergency, wait |-> c.lanes[l].wait]]

\* the keys of the snapshot in insertion order
DataOrder(ld) == [i \in 1..Len(ld) |-> ld[i].lane_id]

RECURSIVE MaxOver(_, _)
MaxOver(S, f) ==
    IF S = {} THEN 0
    ELSE LET x == CHOOSE y \in S : TRUE
         IN Max(f[x], MaxOver(S \ {x}, f))

\* lines 49-55 of _choose_emergency_lane: the lanes of the snapshot tied at
\* the largest positive emergency count, in the order of the snapshot
Tied(data, order) ==
    LET IsEm(l) == data[l].emergency > 0
        emergencies == SelectSeq(order, IsEm)
        max_count == MaxOver(Range(emergencies), [l \in Range(emergencies) |-> data[l].emergency])
        IsTied(l) == data[l].emergency = max_count
    IN SelectSeq(emergencies, IsTied)

\* x in ids, for an optional lane x: None is in no list of lane ids
IsIn(x, ids) == \E i \in 1..Len(ids) : Some(ids[i]) = x

\* _choose_emergency_lane: the chosen lane (None without emergency) and the
\* new value of last_emergency_lane
ChooseEmergencyLane(c, data, order) ==
    LET tied == Tied(data, order)
        n == Len(c.lane_ids)
        start == IF IsIn(c.last_emergency_lane, c.lane_ids)
                 THEN (IndexOf(c.lane_ids, c.last_emergency_lane[1]) + 1) % n
                 ELSE 0
        hits == { i \in 0..(n-1) : c.lane_ids[((start + i) % n) + 1] \in Range(tied) }
        first == CHOOSE i \in hits : \A j \in hits : i <= j
        chosen == IF Len(tied) = 1 THEN tied[1]
                  ELSE IF hits # {} THEN c.lane_ids[((start + first) % n) + 1]
                  ELSE tied[1]
    IN IF Len(tied) = 0
       THEN [chosen |-> None, last_emergency_lane |-> c.last_emergency_lane]
       ELSE [chosen |-> Some(chosen), last_emergency_lane |-> Some(chosen)]

\* the score n * (1 + w * 0.4), plus 1000 from w = 8 on, in the doubles of
\* the code: for these (n, w) the result is the double next above, or next
\* below, the double nearest to the exact value; for every other n in 0..63
\* and w in 0..12 it is that nearest double itself
RoundedUp ==
    { <<1, 6>>, <<1, 7>>, <<2, 6>>, <<2, 7>>, <<3, 3>>, <<3, 4>>, <<3, 6>>,
      <<4, 6>>, <<4, 7>>, <<6, 3>>, <<6, 4>>, <<6, 6>>, <<7, 3>>, <<7, 6>>,
      <<8, 6>>, <<8, 7>>, <<9, 4>>, <<11, 3>>, <<11, 6>>, <<11, 7>>,
      <<12, 3>>, <<12, 4>>, <<12, 6>>, <<13, 2>>, <<13, 4>>, <<13, 7>>,
      <<14, 3>>, <<14, 6>>, <<15, 6>>, <<15, 7>>, <<16, 6>>, <<16, 7>>,
      <<17, 3>>, <<17, 6>>, <<17, 7>>, <<18, 4>>, <<19, 3>>, <<19, 6>>,
      <<21, 2>>, <<21, 7>>, <<22, 3>>, <<22, 6>>, <<22, 7>>, <<23, 4>>,
      <<24, 3>>, <<24, 4>>, <<24, 6>>, <<25, 3>>, <<25, 6>>, <<26, 2>>,
      <<26, 4>>, <<26, 7>>, <<27, 3>>, <<27, 6>>, <<27, 7>>, <<28, 3>>,
      <<28, 6>>, <<29, 3>>, <<29, 6>>, <<30, 6>>, <<30, 7>>, <<31, 2>>,
      <<31, 4>>, <<31, 7>>, <<32, 6>>, <<32, 7>>, <<33, 3>>, <<33, 6>>,
      <<34, 3>>, <<34, 6>>, <<34, 7>>, <<35, 6>>, <<36, 4>>, <<37, 2>>,
      <<37, 6>>, <<37, 7>>, <<38, 3>>, <<38, 6>>, <<39, 3>>, <<39, 6>>,
      <<39, 7>>, <<41, 4>>, <<42, 2>>, <<42, 7>>, <<43, 3>>, <<43, 6>>,
      <<44, 3>>, <<44, 6>>, <<44, 7>>, <<45, 3>>, <<45, 6>>, <<46, 4>>,
      <<47, 2>>, <<47, 7>>, <<48, 3>>, <<48, 4>>, <<48, 6>>, <<49, 3>>,
      <<49, 6>>, <<49, 7>>, <<50, 3>>, <<50, 6>>, <<52, 2>>, <<52, 4>>,
      <<52, 7>>, <<53, 3>>, <<53, 6>>, <<54, 3>>, <<54, 6>>, <<54, 7>>,
      <<55, 3>>, <<55, 6>>, <<55, 7>>, <<56, 3>>, <<56, 6>>, <<56, 12>>,
      <<57, 2>>, <<57, 4>>, <<57, 7>>, <<58, 3>>, <<58, 6>>, <<59, 6>>,
      <<59, 7>>, <<60, 6>>, <<60, 7>>, <<61, 3>>, <<61, 6>>, <<61, 12>>,
      <<62, 2>>, <<62, 4>>, <<62, 7>>, <<63, 3>>, <<63, 6>> }

RoundedDown ==
    { <<3, 1>>, <<6, 1>>, <<7, 1>>, <<11, 1>>, <<12, 1>>, <<14, 1>>,
      <<17, 1>>, <<19, 1>>, <<22, 1>>, <<23, 1>>, <<24, 1>>, <<28, 1>>,
      <<29, 1>>, <<33, 1>>, <<34, 1>>, <<38, 1>>, <<39, 1>>, <<43, 1>>,
      <<44, 1>>, <<45, 1>>, <<46, 1>>, <<48, 1>>, <<51, 1>>, <<53, 1>>,
      <<56, 1>>, <<58, 1>>, <<61, 1>>, <<63, 1>> }

Rounding(n, w) ==
    IF <<n, w>> \in RoundedUp THEN 1
    ELSE IF <<n, w>> \in RoundedDown THEN -1
    ELSE 0

\* the order of two scores, as the floats of the code compare
ScoreLess(a, b) == a[1] < b[1] \/ (a[1] = b[1] /\ a[2] < b[2])

\* the score of one lane in _choose_normal_lane: five times its exact value
\* and the rounding of the float
Score(data, l) ==
    LET n == data[l].normal
        w == data[l].wait
    IN << n * (5 + w * wait_boost_x5)
            + (IF w >= starvation_limit THEN starvation_bonus_x5 ELSE 0),
          Rounding(n, w) >>

\* _choose_normal_lane: max over the dict of scores keeps the first maximum
\* in insertion order, which is the order of lane_ids
ChooseNormalLane(c, data) ==
    LET ids == c.lane_ids
        best == CHOOSE i \in 1..Len(ids) :
                    /\ \A j \in 1..Len(ids) : ~ScoreLess(Score(data, ids[i]), Score(data, ids[j]))
                    /\ \A j \in 1..(i-1) : ScoreLess(Score(data, ids[j]), Score(data, ids[i]))
    IN ids[best]

\* normal / 2.5 + wait * 0.4 + emergency * 2.0, limited to [3.0, 12.0], in
\* the doubles of the code: for these (normal, wait, emergency) the result
\* is the double next above, or next below, the double nearest to the exact
\* value; for every other normal in 0..63, wait in 0..12 and emergency in
\* 0..3 it is that nearest double itself
GreenRoundedUp ==
    { <<0, 7, 1>>, <<0, 7, 2>>, <<0, 12, 0>>, <<0, 12, 1>>, <<1, 6, 1>>,
      <<1, 6, 2>>, <<1, 11, 0>>, <<1, 11, 1>>, <<1, 12, 0>>,
      <<1, 12, 1>>, <<1, 12, 2>>, <<1, 12, 3>>, <<2, 7, 0>>, <<2, 7, 1>>,
      <<2, 7, 2>>, <<2, 7, 3>>, <<2, 12, 0>>, <<2, 12, 1>>, <<2, 12, 2>>,
      <<2, 12, 3>>, <<3, 6, 0>>, <<3, 6, 1>>, <<3, 6, 2>>, <<3, 6, 3>>,
      <<3, 11, 0>>, <<3, 11, 1>>, <<3, 11, 2>>, <<3, 11, 3>>,
      <<3, 12, 0>>, <<4, 3, 1>>, <<4, 3, 2>>, <<4, 8, 0>>, <<4, 8, 1>>,
      <<5, 7, 0>>, <<5, 7, 1>>, <<5, 12, 0>>, <<6, 6, 0>>, <<6, 6, 1>>,
      <<6, 11, 0>>, <<6, 12, 0>>, <<6, 12, 1>>, <<6, 12, 2>>,
      <<7, 12, 0>>, <<7, 12, 1>>, <<7, 12, 2>>, <<8, 4, 0>>, <<8, 4, 1>>,
      <<8, 6, 0>>, <<8, 6, 1>>, <<8, 6, 2>>, <<8, 6, 3>>, <<8, 9, 0>>,
      <<8, 11, 0>>, <<8, 11, 1>>, <<8, 11, 2>>, <<9, 3, 0>>, <<9, 3, 1>>,
      <<9, 8, 0>>, <<10, 7, 0>>, <<11, 1, 0>>, <<11, 1, 1>>,
      <<11, 3, 0>>, <<11, 3, 1>>, <<11, 3, 2>>, <<11, 3, 3>>,
      <<11, 6, 0>>, <<11, 7, 0>>, <<11, 7, 1>>, <<11, 7, 2>>,
      <<11, 8, 0>>, <<11, 8, 1>>, <<11, 8, 2>>, <<11, 12, 0>>,
      <<11, 12, 1>>, <<12, 12, 0>>, <<12, 12, 1>>, <<13, 1, 0>>,
      <<13, 1, 1>>, <<13, 1, 2>>, <<13, 1, 3>>, <<13, 4, 0>>,
      <<13, 6, 0>>, <<13, 6, 1>>, <<13, 6, 2>>, <<13, 11, 0>>,
      <<13, 11, 1>>, <<16, 1, 0>>, <<16, 3, 0>>, <<16, 3, 1>>,
      <<16, 3, 2>>, <<16, 7, 0>>, <<16, 7, 1>>, <<16, 8, 0>>,
      <<16, 8, 1>>, <<16, 12, 0>>, <<17, 12, 0>>, <<18, 1, 0>>,
      <<18, 1, 1>>, <<18, 1, 2>>, <<18, 6, 0>>, <<18, 6, 1>>,
      <<18, 11, 0>>, <<21, 2, 0>>, <<21, 2, 1>>, <<21, 3, 0>>,
      <<21, 3, 1>>, <<21, 7, 0>>, <<21, 8, 0>>, <<22, 1, 0>>,
      <<22, 1, 1>>, <<22, 2, 0>>, <<22, 2, 1>>, <<22, 6, 0>>,
      <<22, 7, 0>>, <<26, 2, 0>>, <<26, 3, 0>>, <<27, 1, 0>>,
      <<27, 2, 0>> }

GreenRoundedDown ==
    { <<7, 1, 0>>, <<7, 1, 1>>, <<7, 1, 2>>, <<7, 2, 0>>, <<14, 2, 0>>,
      <<14, 2, 1>>, <<14, 2, 2>>, <<14, 4, 0>>, <<23, 3, 0>>,
      <<23, 4, 0>> }

GreenRounding(lane_data) ==
    LET x == <<lane_data.normal, lane_data.wait, lane_data.emergency>>
    IN IF x \in GreenRoundedUp THEN 1
       ELSE IF x \in GreenRoundedDown THEN -1
       ELSE 0

\* _calculate_green_time without the cap at max_green
CalculateGreenTime_NoCap(lane_data) ==
    << Max(min_green, (lane_data.normal * 100) \div clearance_rate_x10
                        + lane_data.wait * 4 + lane_data.emergency * 20),
       GreenRounding(lane_data) >>

\* _calculate_green_time without the bonus for emergency vehicles
CalculateGreenTime_NoEmergencyBonus(lane_data) ==
    << Max(min_green, Min((lane_data.normal * 100) \div clearance_rate_x10
                            + lane_data.wait * 4, max_green)),
       GreenRounding(lane_data) >>

\* _calculate_green_time: the duration in tenths of a second and the
\* rounding of the float
CalculateGreenTime(lane_data) ==
    LET clear_time == (lane_data.normal * 100) \div clearance_rate_x10
        wait_bonus == lane_data.wait * 4
        emergency_bonus == lane_data.emergency * 20
        base_time == clear_time + wait_bonus + emergency_bonus
    IN << Max(min_green, Min(base_time, max_green)), GreenRounding(lane_data) >>

\* elapsed < self.current_green_time, for an elapsed time of whole tenths
\* that is a double itself
ElapsedLess(elapsed, green_time) ==
    elapsed < green_time[1] \/ (elapsed = green_time[1] /\ 0 < green_time[2])

\* int(self.clearance_rate * green_time): 2.5 times a double just below a
\* multiple of 0.4 s is a double just below a whole number, which int()
\* truncates, save where the product rounds to the whole number (3.6 s and
\* 7.2 s, among the durations from min_green to max_green)
Capacity(green_time) ==
    (clearance_rate_x10 * green_time[1]) \div 100
        - (IF green_time[2] = -1 /\ green_time[1] % 4 = 0 /\ green_time[1] \notin {36, 72}
           THEN 1 ELSE 0)

\* _apply_yellow without the loop that turns the other lanes red
ApplyYellow_KeepsOthers(lanes, ids, to_green) ==
    [l \in DOMAIN lanes |->
        IF l = to_green THEN [lanes[l] EXCEPT !.state = Green] ELSE lanes[l]]

\* _apply_yellow: the lane map when the method returns
ApplyYellow(lanes, ids, to_green) ==
    [l \in DOMAIN lanes |->
        IF l = to_green THEN [lanes[l] EXCEPT !.state = Green]
        ELSE IF l \in Range(ids) THEN [lanes[l] EXCEPT !.state = Red]
        ELSE lanes[l]]

\* _update_waits that leaves the counter of the chosen lane as it is
UpdateWaits_NoReset(lanes, ids, chosen) ==
    [l \in DOMAIN lanes |->
        IF l \notin Range(ids) \/ l = chosen THEN lanes[l]
        ELSE [lanes[l] EXCEPT !.wait = lanes[l].wait + 1]]

\* _update_waits
UpdateWaits(lanes, ids, chosen) ==
    [l \in DOMAIN lanes |->
        IF l \notin Range(ids) THEN lanes[l]
        ELSE IF l = chosen THEN [lanes[l] EXCEPT !.wait = 0]
        ELSE [lanes[l] EXCEPT !.wait = lanes[l].wait + 1]]

\* _simulate_flow subtracting the clearance capacity without the min
SimulateFlow_NoMin(data, ids, chosen, green_time, arrivals) ==
    LET cleared == Capacity(green_time)
    IN [l \in DOMAIN data |->
          IF l = chosen THEN data[l].normal - cleared
          ELSE IF l \in Range(ids) THEN data[l].normal + arrivals[l]
          ELSE data[l].normal]

\* _simulate_flow: the normal counts of the snapshot afterwards;
\* arrivals[l] is the random increment drawn for lane l
SimulateFlow(data, ids, chosen, green_time, arrivals) ==
    LET cleared == Min(data[chosen].normal, Capacity(green_time))
    IN [l \in DOMAIN data |->
          IF l = chosen THEN data[l].normal - cleared
          ELSE IF l \in Range(ids) THEN data[l].normal + arrivals[l]
          ELSE data[l].normal]

\* steps 1 and 2 of update: the lane to open at instant t. The code tests
\* truth values (`if not chosen`, `if self.current_green and
\* self.green_started_at`): the lane id '' counts as no lane, and the start
\* instant None or 0.0 as none
ChooseLane(c, data, order, t) ==
    LET em == ChooseEmergencyLane(c, data, order)
    IN IF Truthy(em.chosen) THEN em.chosen[1]
       ELSE IF Truthy(c.current_green) /\ c.green_started_at # NoTime
            THEN IF ElapsedLess(t - c.green_started_at, c.current_green_time)
                 THEN c.current_green[1]
                 ELSE ChooseNormalLane(c, data)
            ELSE ChooseNormalLane(c, data)

\* update raises when the scores are empty (max of an empty dict)
UpdateRaises(c, ld) ==
    /\ ~Truthy(ChooseEmergencyLane(c, MergeData(c, ld), DataOrder(ld)).chosen)
    /\ Len(c.lane_ids) = 0
    /\ ~(Truthy(c.current_green) /\ c.green_started_at # NoTime)

\* the report with the allotted duration attached to every lane
Output_GreenTimeOnAll(c) ==
    [l \in Range(c.lane_ids) |->
        [state |-> c.lanes[l].state, wait |-> c.lanes[l].wait,
         green_time |-> c.current_green_time]]

\* the report update returns, built from the controller it leaves behind
Output(c) ==
    [l \in Range(c.lane_ids) |->
        IF Some(l) = c.current_green
        THEN [state |-> c.lanes[l].state, wait |-> c.lanes[l].wait,
              green_time |-> c.current_green_time]
        ELSE [state |-> c.lanes[l].state, wait |-> c.lanes[l].wait]]

\* steps 1 to 5 of update that compute the duration from the wait counter
\* after its reset
Decide_GreenTimeAfterReset(c, ld, t) ==
    LET data == MergeData(c, ld)
        order == DataOrder(ld)
        em == ChooseEmergencyLane(c, data, order)
        chosen == ChooseLane(c, data, order, t)
        waited == UpdateWaits(c.lanes, c.lane_ids, chosen)
        green_time == CalculateGreenTime([data[chosen] EXCEPT !.wait = waited[chosen].wait])
    IN [ self |-> [ c EXCEPT
                      !.last_emergency_lane = em.last_emergency_lane,
                      !.current_green_time = green_time,
                      !.current_green = Some(chosen),
                      !.green_started_at = t,
                      !.lanes = ApplyYellow(waited, c.lane_ids, chosen) ],
         data |-> data,
         chosen |-> chosen ]

\* steps 1 to 5 of update at instant t: the snapshot, the lane chosen, and
\* the controller once the waits, the duration, the phases, the green
\* pointer and the start instant are written
Decide(c, ld, t) ==
    LET data == MergeData(c, ld)
        order == DataOrder(ld)
        em == ChooseEmergencyLane(c, data, order)
        chosen == ChooseLane(c, data, order, t)
        waited == UpdateWaits(c.lanes, c.lane_ids, chosen)
        green_time == CalculateGreenTime(data[chosen])
    IN [ self |-> [ c EXCEPT
                      !.last_emergency_lane = em.last_emergency_lane,
                      !.current_green_time = green_time,
                      !.current_green = Some(chosen),
                      !.green_started_at = t,
                      !.lanes = ApplyYellow(waited, c.lane_ids, chosen) ],
         data |-> data,
         chosen |-> chosen ]

\* steps 6 and 7 of update that write the emergency counts back along with
\* the normal ones
Settle_PersistsEmergency(d, arrivals) ==
    LET c == d.self
        flow == SimulateFlow(d.data, c.lane_ids, d.chosen, c.current_green_time, arrivals)
    IN [ c EXCEPT !.lanes =
           [l \in DOMAIN c.lanes |->
               IF l \in Range(c.lane_ids)
               THEN [c.lanes[l] EXCEPT !.normal = flow[l],
                                       !.emergency = d.data[l].emergency]
               ELSE c.lanes[l]] ]

\* steps 6 and 7 of update: the flow on the snapshot, with arrivals[l] the
\* increment drawn for lane l, and the normal counts written back
Settle(d, arrivals) ==
    LET c == d.self
        flow == SimulateFlow(d.data, c.lane_ids, d.chosen, c.current_green_time, arrivals)
    IN [ c EXCEPT !.lanes =
           [l \in DOMAIN c.lanes |->
               IF l \in Range(c.lane_ids)
               THEN [c.lanes[l] EXCEPT !.normal = flow[l]]
               ELSE c.lanes[l]] ]

\* update: the controller after the call
Update(c, ld, t, arrivals) == Settle(Decide(c, ld, t), arrivals)

\* ------------------------------------------------------------------------
\* The service
\* ------------------------------------------------------------------------

\* the test of update_signal comparing the lists instead of the sets
NeedsReset_ByList(ctl, known, incoming_lanes) ==
    ctl = NoController \/ incoming_lanes # known

\* the test of update_signal that replaces the controller
NeedsReset(ctl, known, incoming_lanes) ==
    ctl = NoController \/ Range(incoming_lanes) # Range(known)

\* the controller update_signal calls update on
Registered(ctl, known, incoming_lanes) ==
    IF NeedsReset(ctl, known, incoming_lanes)
    THEN NewController(incoming_lanes)
    ELSE ctl

\* what update_signal makes of the two globals for body ld at instant t:
\* one outcome for every way random.randint can draw, out of arrs, the
\* increments of the lanes that stay red, or the one outcome of a raise
Outcomes(ctl, known, ld, t, arrs) ==
    LET incoming_lanes == DataOrder(ld)
        reset == NeedsReset(ctl, known, incoming_lanes)
        c == Registered(ctl, known, incoming_lanes)
        registered == IF reset THEN incoming_lanes ELSE known
        d == Decide(c, ld, t)
    IN IF UpdateRaises(c, ld)
       THEN { [ controller |-> c, current_lanes |-> registered,
                response |-> [status |-> "error", output |-> EmptyMap] ] }
       ELSE { LET c2 == Settle(d, arrivals)
              IN [ controller |-> c2, current_lanes |-> registered,
                   response |-> [status |-> "success", output |-> Output(c2)] ]
              : arrivals \in [Range(c.lane_ids) \ {d.chosen} -> arrs] }

\* POST /update with body ld, the wall clock reading t
UpdateSignal(ld, t, arrs) ==
    \E o \in Outcomes(controller, current_lanes, ld, t, arrs) :
        /\ lanes_data' = ld
        /\ now' = t
        /\ current_lanes' = o.current_lanes
        /\ controller' = o.controller
        /\ response' = o.response

\* one request out of reqs, after a gap out of gaps, with arrivals out of arrs,
\* as long as no wait counter passes maxwait and the clock stays within maxtime
Cycle(reqs, gaps, arrs, maxwait, maxtime) ==
    \E ld \in reqs : \E g \in gaps :
        /\ now + g <= maxtime
        /\ UpdateSignal(ld, now + g, arrs)
        /\ \A l \in DOMAIN controller'.lanes : controller'.lanes[l].wait <= maxwait

\* two worker threads of the service, and a thread between two requests
Workers == {"w1", "w2"}

\* the locals of a thread between two requests: the body ld of its request,
\* own (the object self names once the global names another one), the list
\* ids and the position i of the loop it is in, the snapshot data, the
\* lanes tied, the position start and the number n of rounds of the scan of
\* the emergency selector, the lane chosen, the clock reading t, the time
\* elapsed and the report output
Idle ==
    [ pc |-> "idle", ld |-> <<>>, own |-> NoController, ids |-> <<>>, i |-> 0,
      data |-> EmptyMap, tied |-> <<>>, start |-> 0, n |-> 0, chosen |-> None,
      t |-> NoTime, elapsed |-> 0, output |-> EmptyMap ]

Init ==
    /\ controller = NoController
    /\ current_lanes = <<>>
    /\ lanes_data = <<>>
    /\ response = [status |-> "none", output |-> EmptyMap]
    /\ now = StartTime
    /\ observed = EmptyMap
    /\ workers = [w \in Workers |-> Idle]
    /\ twin = NoController
    /\ classifier = None
    /\ detections = <<>>
    /\ ml_counts = None

\* a step in which one /update request is served from start to end and
\* nothing else happens
OnlyUpdate ==
    UNCHANGED <<observed, workers, twin, classifier, detections, ml_counts>>

Next == Cycle(Requests, Gaps, Arrivals, MaxWait, MaxTime) /\ OnlyUpdate

Spec == Init /\ [][Next]_vars

\* the service fed with emergencies on two or three lanes, one of them with
\* the empty string or the string 'None' for its id, called at once or
\* after every allotted duration has elapsed
MaxWaitEmergency == 2

EmergencyGaps == {0, 60}

EmergencyRequests ==
    RequestsOn(<<"A", "B">>, {<<0, 0>>, <<0, 2>>})
      \cup RequestsOn(<<"A", "B", "C">>, {<<0, 0>>, <<0, 2>>})
      \cup RequestsOn(<<"", "B">>, {<<0, 1>>, <<2, 0>>, <<2, 1>>})
      \cup RequestsOn(<<"None", "B">>, {<<0, 1>>})

NextEmergency ==
    Cycle(EmergencyRequests, EmergencyGaps, Arrivals, MaxWaitEmergency, MaxTime) /\ OnlyUpdate

SpecEmergency == Init /\ [][NextEmergency]_vars

\* the service fed with traffic on two lanes, long enough for a lane to
\* wait starvation_limit cycles and more
MaxWaitStarve == 9

StarveRequests == RequestsOn(<<"A", "B">>, {<<0, 0>>, <<2, 0>>, <<30, 0>>})

NextStarve == Cycle(StarveRequests, Gaps, Arrivals, MaxWaitStarve, MaxTime) /\ OnlyUpdate

SpecStarve == Init /\ [][NextStarve]_vars

\* the service fed with queues on two lanes, one of them longer than a
\* maximal green phase clears, with every increment randint(0, 3) can draw
MaxWaitFlow == 2

MaxTimeFlow == 241

FlowGaps == {0, 120}

FlowArrivals == 0..3

FlowRequests == RequestsOn(<<"A", "B">>, {<<0, 0>>, <<2, 0>>, <<40, 0>>})

NextFlow ==
    Cycle(FlowRequests, FlowGaps, FlowArrivals, MaxWaitFlow, MaxTimeFlow) /\ OnlyUpdate

SpecFlow == Init /\ [][NextFlow]_vars

\* GET /status: the lane map of the controller, or {} without controller
GetStatus ==
    /\ observed' = IF controller = NoController THEN EmptyMap ELSE controller.lanes
    /\ UNCHANGED <<controller, current_lanes, lanes_data, response, now,
                   workers, twin, classifier, detections, ml_counts>>

\* the service fed with emergencies on two lanes and asked for its status
\* between the requests
MaxWaitStatus == 2

StatusRequests == RequestsOn(<<"A", "B">>, {<<0, 0>>, <<2, 1>>, <<0, 2>>})

NextStatus ==
    \/ Cycle(StatusRequests, EmergencyGaps, Arrivals, MaxWaitStatus, MaxTime) /\ OnlyUpdate
    \/ GetStatus

SpecStatus == Init /\ [][NextStatus]_vars

\* update_signal as a function of the two globals: the controller it leaves
\* behind for body ld at instant t
ServedBy(ctl, known, ld, t, arrivals) ==
    LET c == Registered(ctl, known, DataOrder(ld))
    IN IF UpdateRaises(c, ld) THEN c ELSE Update(c, ld, t, arrivals)

\* the lane update_signal opens for body ld at instant t, given the two
\* globals (None when it raises)
OpenedBy(ctl, known, ld, t) ==
    LET c == Registered(ctl, known, DataOrder(ld))
    IN IF UpdateRaises(c, ld) THEN None ELSE Some(Decide(c, ld, t).chosen)

\* one request served by two runs of the service: the same body at the same
\* instant, each run with random increments of its own
TwinCycle(reqs, gaps, arrs, maxwait, maxtime) ==
    /\ Cycle(reqs, gaps, arrs, maxwait, maxtime)
    /\ \E arrivals \in [{ l \in Range(DataOrder(lanes_data')) :
                              Some(l) # OpenedBy(twin, current_lanes, lanes_data', now') }
                              -> arrs] :
          twin' = ServedBy(twin, current_lanes, lanes_data', now', arrivals)
    /\ UNCHANGED <<observed, workers, classifier, detections, ml_counts>>

MaxWaitTwin == 2

TwinRequests == RequestsOn(<<"A", "B">>, {<<0, 0>>, <<2, 0>>, <<0, 1>>})

NextTwin == TwinCycle(TwinRequests, EmergencyGaps, Arrivals, MaxWaitTwin, MaxTime)

SpecTwin == Init /\ [][NextTwin]_vars

\* ------------------------------------------------------------------------
\* The service with its handlers running on worker threads: update_signal
\* and get_status are plain functions, which the framework runs in a thread
\* pool, and neither takes a lock. A thread can be preempted between any
\* two lines, at every round of a loop and when a call returns: a step
\* below is one line of the code, the part of a line before or after a call
\* it makes, one round of a loop, or a run of lines that touches nothing but
\* the locals of the thread. The pc of a thread is the line it executes
\* next. update_signal looks the global controller up at every line; inside
\* update, self is the object the global named when line 53 made the call,
\* and its attributes are looked up each time a line names them.
\* ------------------------------------------------------------------------

\* worker w is inside update
InUpdate(w) ==
    workers[w].pc \notin {"idle", "34", "35", "44", "46", "51", "53", "done"}

\* the object update runs on in worker w: the global controller, or the
\* object the global named before another thread replaced it
Self(w) == IF workers[w].own = NoController THEN controller ELSE workers[w].own

\* worker w assigns to attributes of self and goes on with the locals me
Store(w, c, me) ==
    IF workers[w].own = NoController
    THEN /\ controller' = c
         /\ workers' = [workers EXCEPT ![w] = me]
    ELSE /\ controller' = controller
         /\ workers' = [workers EXCEPT ![w] = [me EXCEPT !.own = c]]

\* a thread whose request has been answered
Done == [Idle EXCEPT !.pc = "done"]

\* an exception leaves update and update_signal: the request is answered
\* with an error, and what the thread has written so far stays
Raise(w) ==
    /\ response' = [status |-> "error", output |-> EmptyMap]
    /\ workers' = [workers EXCEPT ![w] = Done]

\* f with key k set to value v
Put(f, k, v) == [x \in DOMAIN f \cup {k} |-> IF x = k THEN v ELSE f[x]]

\* lines 28-32: worker w takes the request with body ld
Accept(w, ld) ==
    /\ workers[w].pc = "idle"
    /\ lanes_data' = ld
    /\ workers' = [workers EXCEPT ![w] = [Idle EXCEPT !.pc = "34", !.ld = ld]]
    /\ UNCHANGED <<controller, current_lanes, response, now>>

\* line 34: the test on the two globals
TestLanes(w) ==
    /\ workers[w].pc = "34"
    /\ workers' = [workers EXCEPT ![w].pc =
          IF NeedsReset(controller, current_lanes, DataOrder(workers[w].ld))
          THEN "35" ELSE "53"]
    /\ UNCHANGED <<controller, current_lanes, lanes_data, response, now>>

\* lines 35-42: the global names a new object, with the lanes of __init__;
\* a thread inside update on the old object keeps that object as self
Construct(w) ==
    /\ workers[w].pc = "35"
    /\ controller' = Constructed(Len(workers[w].ld))
    /\ workers' = [v \in Workers |->
          IF v = w THEN [workers[v] EXCEPT !.pc = "44"]
          ELSE IF InUpdate(v) /\ workers[v].own = NoController
               THEN [workers[v] EXCEPT !.own = controller]
               ELSE workers[v]]
    /\ UNCHANGED <<current_lanes, lanes_data, response, now>>

\* line 44
SetLaneIds(w) ==
    /\ workers[w].pc = "44"
    /\ controller' = [controller EXCEPT !.lane_ids = DataOrder(workers[w].ld)]
    /\ workers' = [workers EXCEPT ![w].pc = "46"]
    /\ UNCHANGED <<current_lanes, lanes_data, response, now>>

\* lines 46-49
SetLanes(w) ==
    /\ workers[w].pc = "46"
    /\ controller' = [controller EXCEPT !.lanes =
          [l \in Range(DataOrder(workers[w].ld)) |->
              [normal |-> 0, emergency |-> 0, wait |-> 0, state |-> Red]]]
    /\ workers' = [workers EXCEPT ![w].pc = "51"]
    /\ UNCHANGED <<current_lanes, lanes_data, response, now>>

\* line 51
SetCurrentLanes(w) ==
    /\ workers[w].pc = "51"
    /\ current_lanes' = DataOrder(workers[w].ld)
    /\ workers' = [workers EXCEPT ![w].pc = "53"]
    /\ UNCHANGED <<controller, lanes_data, response, now>>

\* line 53: update is called on the object the global names
CallUpdate(w) ==
    /\ workers[w].pc = "53"
    /\ workers' = [workers EXCEPT ![w].pc =
          IF Len(workers[w].ld) = 0 THEN "158" ELSE "148"]
    /\ UNCHANGED <<controller, current_lanes, lanes_data, response, now>>

\* lines 148-155: one round of the comprehension that builds the snapshot
MergeOne(w) ==
    LET me == workers[w]
        d == me.ld[me.i + 1]
        last == me.i + 1 = Len(me.ld)
    IN /\ me.pc = "148"
       /\ IF d.lane_id \notin DOMAIN Self(w).lanes
          THEN Raise(w)
          ELSE /\ workers' = [workers EXCEPT ![w] =
                     [me EXCEPT !.data = Put(me.data, d.lane_id,
                                     [normal |-> d.normal, emergency |-> d.emergency,
                                      wait |-> Self(w).lanes[d.lane_id].wait]),
                                !.i = IF last THEN 0 ELSE me.i + 1,
                                !.pc = IF last THEN "158" ELSE "148"]]
               /\ UNCHANGED response
       /\ UNCHANGED <<controller, current_lanes, lanes_data, now>>

\* line 158 and lines 49-61: the lanes tied at the largest emergency count
\* are taken from the snapshot; the selector returns None without any,
\* chooses the only one, or goes on to scan the registered lanes
Emergencies(w) ==
    LET me == workers[w]
        tied == Tied(me.data, DataOrder(me.ld))
    IN /\ me.pc = "158"
       /\ workers' = [workers EXCEPT ![w] =
             IF Len(tied) = 0 THEN [me EXCEPT !.chosen = None, !.pc = "161"]
             ELSE IF Len(tied) = 1 THEN [me EXCEPT !.chosen = Some(tied[1]), !.pc = "71"]
             ELSE [me EXCEPT !.tied = tied, !.start = 0, !.pc = "62"]]
       /\ UNCHANGED <<controller, current_lanes, lanes_data, response, now>>

\* line 62
TestMemory(w) ==
    LET me == workers[w]
    IN /\ me.pc = "62"
       /\ workers' = [workers EXCEPT ![w].pc =
             IF IsIn(Self(w).last_emergency_lane, Self(w).lane_ids) THEN "63" ELSE "64"]
       /\ UNCHANGED <<controller, current_lanes, lanes_data, response, now>>

\* line 63, up to the return of list.index, which raises for a lane the
\* list no longer holds
IndexMemory(w) ==
    LET me == workers[w]
        c == Self(w)
    IN /\ me.pc = "63"
       /\ IF IsIn(c.last_emergency_lane, c.lane_ids)
          THEN /\ workers' = [workers EXCEPT ![w] =
                     [me EXCEPT !.start = IndexOf(c.lane_ids, c.last_emergency_lane[1]) + 1,
                                !.pc = "63 len"]]
               /\ UNCHANGED response
          ELSE Raise(w)
       /\ UNCHANGED <<controller, current_lanes, lanes_data, now>>

\* line 63, from the return of list.index on: the list is looked up again
\* for its length, and the modulo raises for an empty list
StartAfter(w) ==
    LET me == workers[w]
        len == Len(Self(w).lane_ids)
    IN /\ me.pc = "63 len"
       /\ IF len > 0
          THEN /\ workers' = [workers EXCEPT ![w] =
                     [me EXCEPT !.start = me.start % len, !.pc = "64"]]
               /\ UNCHANGED response
          ELSE Raise(w)
       /\ UNCHANGED <<controller, current_lanes, lanes_data, now>>

\* the locals of a thread once the scan has chosen lane
Chosen(me, lane) ==
    [me EXCEPT !.chosen = Some(lane), !.tied = <<>>, !.start = 0, !.n = 0, !.i = 0,
               !.pc = "71"]

\* line 64: the number of rounds is the length of the list at this moment;
\* without any round, line 70 chooses the first tied lane
EnterScan(w) ==
    LET me == workers[w]
        n == Len(Self(w).lane_ids)
    IN /\ me.pc = "64"
       /\ workers' = [workers EXCEPT ![w] =
             IF n = 0 THEN Chosen(me, me.tied[1])
             ELSE [me EXCEPT !.n = n, !.i = 0, !.pc = "65"]]
       /\ UNCHANGED <<controller, current_lanes, lanes_data, response, now>>

\* lines 65-70: one round of the scan. The list is looked up in every round,
\* and the modulo raises for an empty one; the round ends the scan at a tied
\* lane, and the last round without one leaves the choice to line 70
ScanOne(w) ==
    LET me == workers[w]
        ids == Self(w).lane_ids
        lane == ids[((me.start + me.i) % Len(ids)) + 1]
        last == me.i + 1 = me.n
    IN /\ me.pc = "65"
       /\ IF Len(ids) > 0
          THEN /\ workers' = [workers EXCEPT ![w] =
                     IF lane \in Range(me.tied) THEN Chosen(me, lane)
                     ELSE IF last THEN Chosen(me, me.tied[1])
                     ELSE [me EXCEPT !.i = me.i + 1]]
               /\ UNCHANGED response
          ELSE Raise(w)
       /\ UNCHANGED <<controller, current_lanes, lanes_data, now>>

\* line 71
Remember(w) ==
    LET me == workers[w]
    IN /\ me.pc = "71"
       /\ Store(w, [Self(w) EXCEPT !.last_emergency_lane = me.chosen],
                [me EXCEPT !.pc = "161"])
       /\ UNCHANGED <<current_lanes, lanes_data, response, now>>

\* lines 161-162: the two truth tests
TestGreen(w) ==
    LET me == workers[w]
    IN /\ me.pc = "161"
       /\ workers' = [workers EXCEPT ![w].pc =
             IF Truthy(me.chosen) THEN "127"
             ELSE IF Truthy(Self(w).current_green) /\ Self(w).green_started_at # NoTime
                  THEN "163"
                  ELSE "167"]
       /\ UNCHANGED <<controller, current_lanes, lanes_data, response, now>>

\* line 163, up to the return of time.time(): the wall clock reads t
ReadClock(w, t) ==
    LET me == workers[w]
    IN /\ me.pc = "163"
       /\ now' = t
       /\ workers' = [workers EXCEPT ![w] = [me EXCEPT !.t = t, !.pc = "163 elapsed"]]
       /\ UNCHANGED <<controller, current_lanes, lanes_data, response>>

\* line 163, from the return of time.time() on: the start instant is looked
\* up and taken off the reading
Elapsed(w) ==
    LET me == workers[w]
    IN /\ me.pc = "163 elapsed"
       /\ workers' = [workers EXCEPT ![w] =
             [me EXCEPT !.elapsed = me.t - Self(w).green_started_at,
                        !.t = NoTime, !.pc = "164"]]
       /\ UNCHANGED <<controller, current_lanes, lanes_data, response, now>>

\* line 164
TestElapsed(w) ==
    LET me == workers[w]
    IN /\ me.pc = "164"
       /\ workers' = [workers EXCEPT ![w].pc =
             IF ElapsedLess(me.elapsed, Self(w).current_green_time) THEN "165" ELSE "167"]
       /\ UNCHANGED <<controller, current_lanes, lanes_data, response, now>>

\* line 165
KeepGreen(w) ==
    LET me == workers[w]
    IN /\ me.pc = "165"
       /\ workers' = [workers EXCEPT ![w] =
             [me EXCEPT !.chosen = Self(w).current_green, !.pc = "127"]]
       /\ UNCHANGED <<controller, current_lanes, lanes_data, response, now>>

\* lines 167 and 169, with lines 75-91: the fairness selector; it raises
\* for a registered lane the snapshot lacks, and without any lane
NormalChoice(w) ==
    LET me == workers[w]
    IN /\ me.pc = "167"
       /\ IF Range(Self(w).lane_ids) \subseteq DOMAIN me.data /\ Len(Self(w).lane_ids) > 0
          THEN /\ workers' = [workers EXCEPT ![w] =
                     [me EXCEPT !.chosen = Some(ChooseNormalLane(Self(w), me.data)),
                                !.pc = "127"]]
               /\ UNCHANGED response
          ELSE Raise(w)
       /\ UNCHANGED <<controller, current_lanes, lanes_data, now>>

\* the head of a loop over self.lane_ids at line at: the list is looked up
\* once, and the loop runs over that list
EnterLoop(w, at, body, after) ==
    LET me == workers[w]
    IN /\ me.pc = at
       /\ workers' = [workers EXCEPT ![w] =
             [me EXCEPT !.ids = Self(w).lane_ids,
                        !.i = 0,
                        !.pc = IF Len(Self(w).lane_ids) = 0 THEN after ELSE body]]
       /\ UNCHANGED <<controller, current_lanes, lanes_data, response, now>>

\* line 172 and line 127
EnterWaits(w) == EnterLoop(w, "127", "128", "175")

\* a round of a loop in worker w that writes the entry of the lane it has
\* reached (written maps each lane to what the round stores for it), or
\* raises when self.lanes has no such lane
Round(w, body, after, written) ==
    LET me == workers[w]
        lane == me.ids[me.i + 1]
        last == me.i + 1 = Len(me.ids)
        c == Self(w)
    IN /\ me.pc = body
       /\ IF lane \in DOMAIN c.lanes
          THEN /\ Store(w, [c EXCEPT !.lanes[lane] = written[lane]],
                        [me EXCEPT !.i = IF last THEN 0 ELSE me.i + 1,
                                   !.pc = IF last THEN after ELSE body])
               /\ UNCHANGED response
          ELSE /\ Raise(w)
               /\ UNCHANGED controller
       /\ UNCHANGED <<current_lanes, lanes_data, now>>

\* lines 128-131: one round of _update_waits
WaitOne(w) ==
    LET lanes == Self(w).lanes
        written == [lane \in DOMAIN lanes |->
                       IF Some(lane) = workers[w].chosen
                       THEN [lanes[lane] EXCEPT !.wait = 0]
                       ELSE [lanes[lane] EXCEPT !.wait = lanes[lane].wait + 1]]
    IN Round(w, "128", "175", written)

\* line 175
SetGreenTime(w) ==
    LET me == workers[w]
    IN /\ me.pc = "175"
       /\ IF me.chosen[1] \in DOMAIN me.data
          THEN /\ Store(w, [Self(w) EXCEPT
                              !.current_green_time = CalculateGreenTime(me.data[me.chosen[1]])],
                        [me EXCEPT !.pc = "114"])
               /\ UNCHANGED response
          ELSE /\ Raise(w)
               /\ UNCHANGED controller
       /\ UNCHANGED <<current_lanes, lanes_data, now>>

\* line 178 and line 114
EnterYellow(w) == EnterLoop(w, "114", "115", "121")

\* lines 115-118: one round of the loop of _apply_yellow
YellowOne(w) ==
    LET lanes == Self(w).lanes
        written == [lane \in DOMAIN lanes |->
                       IF Some(lane) = workers[w].chosen
                       THEN [lanes[lane] EXCEPT !.state = Yellow]
                       ELSE [lanes[lane] EXCEPT !.state = Red]]
    IN Round(w, "115", "121", written)

\* line 121
TurnGreen(w) ==
    LET me == workers[w]
        c == Self(w)
    IN /\ me.pc = "121"
       /\ IF me.chosen[1] \in DOMAIN c.lanes
          THEN /\ Store(w, [c EXCEPT !.lanes[me.chosen[1]].state = Green],
                        [me EXCEPT !.pc = "122"])
               /\ UNCHANGED response
          ELSE /\ Raise(w)
               /\ UNCHANGED controller
       /\ UNCHANGED <<current_lanes, lanes_data, now>>

\* line 122
SetCurrentGreen(w) ==
    LET me == workers[w]
    IN /\ me.pc = "122"
       /\ Store(w, [Self(w) EXCEPT !.current_green = me.chosen], [me EXCEPT !.pc = "123"])
       /\ UNCHANGED <<current_lanes, lanes_data, response, now>>

\* line 123, up to the return of time.time(): the wall clock reads t
ReadStart(w, t) ==
    LET me == workers[w]
    IN /\ me.pc = "123"
       /\ now' = t
       /\ workers' = [workers EXCEPT ![w] = [me EXCEPT !.t = t, !.pc = "123 store"]]
       /\ UNCHANGED <<controller, current_lanes, lanes_data, response>>

\* line 123, from the return of time.time() on: the reading is stored
StampStart(w) ==
    LET me == workers[w]
    IN /\ me.pc = "123 store"
       /\ Store(w, [Self(w) EXCEPT !.green_started_at = me.t],
                [me EXCEPT !.t = NoTime, !.pc = "181"])
       /\ UNCHANGED <<current_lanes, lanes_data, response, now>>

\* line 181 and lines 135-137: the queue of the chosen lane in the snapshot
ClearFlow(w) ==
    LET me == workers[w]
        n == me.data[me.chosen[1]].normal
        cleared == Min(n, Capacity(Self(w).current_green_time))
    IN /\ me.pc = "181"
       /\ workers' = [workers EXCEPT ![w] =
             [me EXCEPT !.data[me.chosen[1]].normal = n - cleared, !.pc = "140"]]
       /\ UNCHANGED <<controller, current_lanes, lanes_data, response, now>>

\* lines 140-142: the arrivals on the other lanes of the snapshot, out of
\* arrs; it raises for a registered lane the snapshot lacks
DrawArrivals(w, arrs) ==
    LET me == workers[w]
        others == Range(Self(w).lane_ids) \ {me.chosen[1]}
    IN /\ me.pc = "140"
       /\ IF others \subseteq DOMAIN me.data
          THEN /\ \E arrivals \in [others -> arrs] :
                     workers' = [workers EXCEPT ![w] =
                        [me EXCEPT !.data = [l \in DOMAIN me.data |->
                                      IF l \in others
                                      THEN [me.data[l] EXCEPT !.normal = @ + arrivals[l]]
                                      ELSE me.data[l]],
                                   !.pc = "184"]]
               /\ UNCHANGED response
          ELSE Raise(w)
       /\ UNCHANGED <<controller, current_lanes, lanes_data, now>>

\* line 184
EnterPersist(w) == EnterLoop(w, "184", "185", "198")

\* line 185: one round of the loop that writes the normal counts back
PersistOne(w) ==
    LET me == workers[w]
        lane == me.ids[me.i + 1]
        last == me.i + 1 = Len(me.ids)
        c == Self(w)
    IN /\ me.pc = "185"
       /\ IF lane \in DOMAIN me.data /\ lane \in DOMAIN c.lanes
          THEN /\ Store(w, [c EXCEPT !.lanes[lane].normal = me.data[lane].normal],
                        [me EXCEPT !.i = IF last THEN 0 ELSE me.i + 1,
                                   !.pc = IF last THEN "198" ELSE "185"])
               /\ UNCHANGED response
          ELSE /\ Raise(w)
               /\ UNCHANGED controller
       /\ UNCHANGED <<current_lanes, lanes_data, now>>

\* lines 197-198
EnterReport(w) == EnterLoop(w, "198", "199", "205")

\* lines 199-202: one round of the loop that builds the report
ReportOne(w) ==
    LET me == workers[w]
        lane == me.ids[me.i + 1]
        last == me.i + 1 = Len(me.ids)
        c == Self(w)
    IN /\ me.pc = "199"
       /\ IF lane \in DOMAIN c.lanes
          THEN /\ workers' = [workers EXCEPT ![w] =
                     [me EXCEPT !.output = Put(me.output, lane,
                                     [state |-> c.lanes[lane].state,
                                      wait |-> c.lanes[lane].wait]),
                                !.i = IF last THEN 0 ELSE me.i + 1,
                                !.pc = IF last THEN "205" ELSE "199"]]
               /\ UNCHANGED response
          ELSE Raise(w)
       /\ UNCHANGED <<controller, current_lanes, lanes_data, now>>

\* lines 205-207 and line 55: green_time is attached and the report
\* returned, or line 205 raises for a green pointer the report lacks
Return(w) ==
    LET me == workers[w]
        g == Self(w).current_green
        output == me.output
    IN /\ me.pc = "205"
       /\ IF g # None /\ g[1] \in DOMAIN output
          THEN /\ response' =
                     [status |-> "success",
                      output |-> [output EXCEPT ![g[1]] =
                          [state |-> output[g[1]].state, wait |-> output[g[1]].wait,
                           green_time |-> Self(w).current_green_time]]]
               /\ workers' = [workers EXCEPT ![w] = Done]
          ELSE Raise(w)
       /\ UNCHANGED <<controller, current_lanes, lanes_data, now>>

\* the threaded service: thread w1 serves a request with an emergency on
\* its only lane B, thread w2 one with emergencies tied on lane B and on a
\* lane with the empty string for its id; the clock is read at once or
\* after a phase of min_green, and /status is read between any two steps
MaxTimeConcurrent == 31

ConcurrentGaps == {0, 30}

ConcurrentRequests ==
    [ w1 |-> { <<[lane_id |-> "B", normal |-> 0, emergency |-> 1]>> },
      w2 |-> { <<[lane_id |-> "", normal |-> 0, emergency |-> 1],
                 [lane_id |-> "B", normal |-> 0, emergency |-> 1]>> } ]

\* what a step of a worker thread leaves alone; the client no longer holds
\* the body of an earlier /status response
ThreadStep ==
    /\ observed' = EmptyMap
    /\ UNCHANGED <<twin, classifier, detections, ml_counts>>

\* a step of a worker thread, or a /status read
NextConcurrent ==
    \/ \E w \in Workers : \E ld \in ConcurrentRequests[w] : Accept(w, ld) /\ ThreadStep
    \/ \E w \in Workers : TestLanes(w) /\ ThreadStep
    \/ \E w \in Workers : Construct(w) /\ ThreadStep
    \/ \E w \in Workers : SetLaneIds(w) /\ ThreadStep
    \/ \E w \in Workers : SetLanes(w) /\ ThreadStep
    \/ \E w \in Workers : SetCurrentLanes(w) /\ ThreadStep
    \/ \E w \in Workers : CallUpdate(w) /\ ThreadStep
    \/ \E w \in Workers : MergeOne(w) /\ ThreadStep
    \/ \E w \in Workers : Emergencies(w) /\ ThreadStep
    \/ \E w \in Workers : TestMemory(w) /\ ThreadStep
    \/ \E w \in Workers : IndexMemory(w) /\ ThreadStep
    \/ \E w \in Workers : StartAfter(w) /\ ThreadStep
    \/ \E w \in Workers : EnterScan(w) /\ ThreadStep
    \/ \E w \in Workers : ScanOne(w) /\ ThreadStep
    \/ \E w \in Workers : Remember(w) /\ ThreadStep
    \/ \E w \in Workers : TestGreen(w) /\ ThreadStep
    \/ \E w \in Workers : \E g \in ConcurrentGaps :
          now + g <= MaxTimeConcurrent /\ ReadClock(w, now + g) /\ ThreadStep
    \/ \E w \in Workers : Elapsed(w) /\ ThreadStep
    \/ \E w \in Workers : TestElapsed(w) /\ ThreadStep
    \/ \E w \in Workers : KeepGreen(w) /\ ThreadStep
    \/ \E w \in Workers : NormalChoice(w) /\ ThreadStep
    \/ \E w \in Workers : EnterWaits(w) /\ ThreadStep
    \/ \E w \in Workers : WaitOne(w) /\ ThreadStep
    \/ \E w \in Workers : SetGreenTime(w) /\ ThreadStep
    \/ \E w \in Workers : EnterYellow(w) /\ ThreadStep
    \/ \E w \in Workers : YellowOne(w) /\ ThreadStep
    \/ \E w \in Workers : TurnGreen(w) /\ ThreadStep
    \/ \E w \in Workers : SetCurrentGreen(w) /\ ThreadStep
    \/ \E w \in Workers : \E g \in ConcurrentGaps :
          now + g <= MaxTimeConcurrent /\ ReadStart(w, now + g) /\ ThreadStep
    \/ \E w \in Workers : StampStart(w) /\ ThreadStep
    \/ \E w \in Workers : ClearFlow(w) /\ ThreadStep
    \/ \E w \in Workers : DrawArrivals(w, Arrivals) /\ ThreadStep
    \/ \E w \in Workers : EnterPersist(w) /\ ThreadStep
    \/ \E w \in Workers : PersistOne(w) /\ ThreadStep
    \/ \E w \in Workers : EnterReport(w) /\ ThreadStep
    \/ \E w \in Workers : ReportOne(w) /\ ThreadStep
    \/ \E w \in Workers : Return(w) /\ ThreadStep
    \/ GetStatus

SpecConcurrent == Init /\ [][NextConcurrent]_vars

\* ------------------------------------------------------------------------
\* The detection service (model_api.py). A label is a string, kept as the
\* sequence of its characters.
\* ------------------------------------------------------------------------

\* an exception raised inside a try block of aggregate_counts
Raises == "Raises"

\* Python's truth value of an optional label: None and '' are false
LabelTruthy(label) == label # None /\ label # Some(<<>>)

UpperCase == <<"A", "B", "C", "D", "E", "F", "G", "H", "I", "J",
      "K", "L", "M", "N", "O", "P", "Q", "R", "S", "T",
      "U", "V", "W", "X", "Y", "Z">>

LowerCase == <<"a", "b", "c", "d", "e", "f", "g", "h", "i", "j",
      "k", "l", "m", "n", "o", "p", "q", "r", "s", "t",
      "u", "v", "w", "x", "y", "z">>

\* str.lower() on one ASCII character
LowerChar(ch) ==
    IF \E k \in 1..Len(UpperCase) : UpperCase[k] = ch
    THEN LowerCase[CHOOSE k \in 1..Len(UpperCase) : UpperCase[k] = ch]
    ELSE ch

\* str(label).lower() on a label of ASCII characters
Lower(label) == [k \in 1..Len(label) |-> LowerChar(label[k])]

\* x in lab: x occurs as a substring of lab
Contains(lab, x) ==
    \E k \in 0..(Len(lab) - Len(x)) : SubSeq(lab, k + 1, k + Len(x)) = x

\* the words aggregate_counts looks for, and those of them that occur as a
\* substring of a lower-case label
Keywords ==
    { <<"a", "m", "b", "u", "l", "a", "n", "c", "e">>,
      <<"e", "m", "e", "r", "g", "e", "n", "c", "y">>,
      <<"p", "o", "l", "i", "c", "e">>,
      <<"f", "i", "r", "e">> }

KeywordsIn(lab) == { x \in Keywords : Contains(lab, x) }

\* the labels of the detections explored
Ambulance == <<"A", "m", "b", "u", "l", "a", "n", "c", "e">>
FireTruck == <<"F", "i", "r", "e", " ", "T", "r", "u", "c", "k">>
Firefighter == <<"f", "i", "r", "e", "f", "i", "g", "h", "t", "e", "r">>
Car == <<"c", "a", "r">>

\* an exception raised where a label was to be returned
Raised == <<Raises>>

\* the embeddings explored: two sent by the client and the one of a crop
Embeddings == {"e_fire", "e_car", "e_crop"}

\* what classifier.predict and decode_label can make of an embedding: an
\* exception (an embedding of the wrong length, say), or a label, the
\* empty one included
Predictions ==
    { Raised, <<>>, Car, <<"P", "O", "L", "I", "C", "E">> }

\* the classifiers that vehicle_classifier.pkl can hold: a loaded
\* classifier is any function from embeddings to predictions
Classifiers == [Embeddings -> Predictions]

\* classify_from_embedding
ClassifyFromEmbedding(cls, emb) ==
    IF cls = None THEN Raised ELSE cls[1][emb]

\* b64decode, Image.open and image_to_embedding on a crop: the embedding
\* of the image, or Raises when the string is no image
CropEmbedding(crop) ==
    IF crop = "c_image" THEN "e_crop" ELSE Raises

\* the label aggregate_counts settles on for detection d (None for none)
LabelOf(cls, d) ==
    IF LabelTruthy(d.pred_label) THEN d.pred_label
    ELSE IF d.embedding # None
    THEN LET label == ClassifyFromEmbedding(cls, d.embedding[1])
         IN IF label = Raised THEN None ELSE Some(label)
    ELSE IF Truthy(d.crop_base64)
    THEN LET emb == CropEmbedding(d.crop_base64[1])
             label == IF emb = Raises THEN Raised ELSE ClassifyFromEmbedding(cls, emb)
         IN IF label = Raised THEN None ELSE Some(label)
    ELSE None

\* one round of the loop of aggregate_counts that forgets a detection left
\* without label
CountOne_DropsUnlabelled(cls, acc, d) ==
    LET lane == d.lane_id[1]
        known == lane \in DOMAIN acc.counts
        order == IF known THEN acc.order ELSE Append(acc.order, lane)
        old == IF known THEN acc.counts[lane] ELSE [normal |-> 0, emergency |-> 0]
        label == LabelOf(cls, d)
        new == IF ~LabelTruthy(label) THEN old
               ELSE IF KeywordsIn(Lower(label[1])) # {}
               THEN [old EXCEPT !.emergency = old.emergency + 1]
               ELSE [old EXCEPT !.normal = old.normal + 1]
    IN IF d.lane_id = None THEN acc
       ELSE [order |-> order,
             counts |-> [l \in DOMAIN acc.counts \cup {lane} |->
                            IF l = lane THEN new ELSE acc.counts[l]]]

\* one round of the loop of aggregate_counts: the dict counts, with its
\* insertion order, after detection d, whose lane_id is None when it has
\* no such key
CountOne(cls, acc, d) ==
    LET lane == d.lane_id[1]
        known == lane \in DOMAIN acc.counts
        order == IF known THEN acc.order ELSE Append(acc.order, lane)
        old == IF known THEN acc.counts[lane] ELSE [normal |-> 0, emergency |-> 0]
        label == LabelOf(cls, d)
        new == IF LabelTruthy(label) /\ KeywordsIn(Lower(label[1])) # {}
               THEN [old EXCEPT !.emergency = old.emergency + 1]
               ELSE [old EXCEPT !.normal = old.normal + 1]
    IN IF d.lane_id = None THEN acc
       ELSE [order |-> order,
             counts |-> [l \in DOMAIN acc.counts \cup {lane} |->
                            IF l = lane THEN new ELSE acc.counts[l]]]

RECURSIVE CountAll(_, _, _)
CountAll(cls, dets, k) ==
    IF k = 0 THEN [order |-> <<>>, counts |-> EmptyMap]
    ELSE CountOne(cls, CountAll(cls, dets, k - 1), dets[k])

\* aggregate_counts: the lane input built from a list of detections
AggregateCounts(cls, dets) ==
    LET acc == CountAll(cls, dets, Len(dets))
    IN [j \in 1..Len(acc.order) |->
          [lane_id |-> acc.order[j],
           normal |-> acc.counts[acc.order[j]].normal,
           emergency |-> acc.counts[acc.order[j]].emergency]]

\* the detections of a call: labelled by the caller, carrying an
\* embedding, carrying a crop, or carrying nothing, on lane A or, for some
\* of these, on lane B, on the lane with id 'None' or without lane_id
MaxDetections == 2

DetectedBox(lane_id, pred_label, embedding, crop_base64) ==
    [lane_id |-> lane_id, pred_label |-> pred_label, embedding |-> embedding,
     crop_base64 |-> crop_base64]

Boxes ==
    { DetectedBox(Some("A"), Some(Ambulance), None, None),
      DetectedBox(Some("A"), Some(FireTruck), None, None),
      DetectedBox(Some("A"), Some(Car), None, None),
      DetectedBox(Some("A"), Some(<<>>), Some("e_fire"), None),
      DetectedBox(Some("A"), None, Some("e_car"), None),
      DetectedBox(Some("A"), None, None, Some("c_image")),
      DetectedBox(Some("A"), None, None, Some("c_garbage")),
      DetectedBox(Some("A"), None, None, None),
      DetectedBox(Some("B"), Some(Firefighter), None, None),
      DetectedBox(Some("B"), None, Some("e_car"), None),
      DetectedBox(Some("B"), None, None, Some("c_garbage")),
      DetectedBox(Some("None"), Some(Car), None, None),
      DetectedBox(None, Some(Ambulance), None, None) }

Payloads(maxlen) == UNION { [1..n -> Boxes] : n \in 0..maxlen }

\* the detection service without the classifier file at start-up or with
\* one of the classifiers loaded, entering aggregate_counts with a list of
\* detections; the traffic service is not involved
InitAggregate ==
    /\ controller = NoController
    /\ current_lanes = <<>>
    /\ lanes_data = <<>>
    /\ response = [status |-> "none", output |-> EmptyMap]
    /\ now = StartTime
    /\ observed = EmptyMap
    /\ workers = [w \in Workers |-> Idle]
    /\ twin = NoController
    /\ classifier \in {None} \cup { Some(cls) : cls \in Classifiers }
    /\ detections \in Payloads(MaxDetections)
    /\ ml_counts = None

\* lines 74-114: aggregate_counts runs on the detections and returns
Aggregate ==
    /\ ml_counts = None
    /\ ml_counts' = Some(AggregateCounts(classifier, detections))
    /\ UNCHANGED <<controller, current_lanes, lanes_data, response, now,
                   observed, workers, twin, classifier, detections>>

NextAggregate == Aggregate

SpecAggregate == InitAggregate /\ [][NextAggregate]_vars

\* ------------------------------------------------------------------------
\* Vocabulary of the properties
\* ------------------------------------------------------------------------

\* the last request was served by a controller with at least one lane
Served == Len(lanes_data) >= 1 /\ response.status = "success"

\* the counts request ld carries for lane l, the lanes it names, and whether
\* it is free of emergencies
ReqOf(ld, l) == ld[CHOOSE i \in 1..Len(ld) : ld[i].lane_id = l]
ReqLanes(ld) == { ld[i].lane_id : i \in 1..Len(ld) }
NoEmergencyIn(ld) == \A i \in 1..Len(ld) : ld[i].emergency = 0

\* a step that served a request on at least one lane
ServedStep == Len(lanes_data') >= 1 /\ response'.status = "success"

\* a step that replaces the controller: there was none, or the lane set of
\* the request differs from the known one
ResetStep ==
    \/ controller = NoController
    \/ ReqLanes(lanes_data') # { current_lanes[i] : i \in 1..Len(current_lanes) }

\* the wait counter lane l enters the step's decision with
WaitBefore(l) == IF ResetStep THEN 0 ELSE controller.lanes[l].wait

\* the step decides while a green phase is on record
GreenOnRecord == ~ResetStep /\ controller.current_green # None

\* the step decides before the allotted green duration has elapsed
GreenNotElapsed ==
    /\ GreenOnRecord
    /\ ElapsedLess(now' - controller.green_started_at, controller.current_green_time)

\* the fairness score of lane l in the step's decision, times 5
StepScore(l) ==
    LET n == ReqOf(lanes_data', l).normal
        w == WaitBefore(l)
    IN 5 * n + 2 * n * w + (IF w >= 8 THEN 5000 ELSE 0)

\* lane ch has the maximal score of the step, and no lane registered before
\* it reaches that score
IsFairnessChoice(ch) ==
    LET ids == controller'.lane_ids
    IN \E p \in 1..Len(ids) :
          /\ ids[p] = ch
          /\ \A q \in 1..Len(ids) : StepScore(ids[q]) <= StepScore(ch)
          /\ \A q \in 1..(p-1) : StepScore(ids[q]) < StepScore(ch)

\* the score of lane l in the step's decision as the Fairness Selector
\* holds it: a double
SelectorScore(l) ==
    <<StepScore(l), Rounding(ReqOf(lanes_data', l).normal, WaitBefore(l))>>

\* lane ch is the result of the Fairness Selector in the step: its score is
\* the largest among the doubles, and it is the first lane with that score
IsSelectorResult(ch) ==
    LET ids == controller'.lane_ids
    IN \E p \in 1..Len(ids) :
          /\ ids[p] = ch
          /\ \A q \in 1..Len(ids) : ~ScoreLess(SelectorScore(ch), SelectorScore(ids[q]))
          /\ \A q \in 1..(p-1) : ScoreLess(SelectorScore(ids[q]), SelectorScore(ch))

\* what a controller has decided: everything it holds but the stored
\* normal counts
Decisions(c) ==
    IF c = NoController THEN c
    ELSE [ lane_ids |-> c.lane_ids,
           current_green |-> c.current_green,
           current_green_time |-> c.current_green_time,
           green_started_at |-> c.green_started_at,
           last_emergency_lane |-> c.last_emergency_lane,
           phases |-> [l \in DOMAIN c.lanes |-> c.lanes[l].state],
           waits |-> [l \in DOMAIN c.lanes |-> c.lanes[l].wait] ]

\* what a controller made for the lanes of request ld, and nothing else,
\* decides on ld at instant t
FreshDecisions(ld, t) == Decisions(Decide(NewController(DataOrder(ld)), ld, t).self)

\* duration a is below duration b, both doubles kept as pairs
Below(a, b) == a[1] < b[1] \/ (a[1] = b[1] /\ a[2] < b[2])

\* the lanes of request ld tied at its largest emergency count, if positive
TiedLanes(ld) ==
    { ld[i].lane_id : i \in { j \in 1..Len(ld) :
          /\ ld[j].emergency > 0
          /\ \A k \in 1..Len(ld) : ld[k].emergency <= ld[j].emergency } }

\* the position of the optional lane x in the registration order ids (0 if
\* it is None or absent)
PosIn(ids, x) ==
    IF IsIn(x, ids)
    THEN CHOOSE i \in 1..Len(ids) : Some(ids[i]) = x
    ELSE 0

\* how many lanes a circular scan of ids passes, starting right after lane
\* from (at position 1 if from is no lane), before it meets lane l, both
\* optional lanes
ScanDistance(ids, from, l) ==
    (PosIn(ids, l) - 1 - PosIn(ids, from) + 2 * Len(ids)) % Len(ids)

\* ------------------------------------------------------------------------
\* Claims
\* ------------------------------------------------------------------------

\* C1: after every served update on at least one lane, the report covers
\* exactly the registered lanes, exactly one of them is Green, every other
\* one is Red, and none is Yellow.
C1_OneGreenRestRed ==
    Len(lanes_data) >= 1 =>
        /\ response.status = "success"
        /\ DOMAIN response.output = Range(controller.lane_ids)
        /\ \E g \in DOMAIN response.output :
              /\ response.output[g].state = Green
              /\ \A l \in DOMAIN response.output \ {g} : response.output[l].state = Red

\* three lanes, C is Green after B and A had their turns
C1_Witness ==
    /\ Served
    /\ controller.lane_ids = <<"A", "B", "C">>
    /\ response.output["C"].state = Green
    /\ response.output["B"].wait = 1
    /\ response.output["A"].wait = 2

\* what C2 says of one step
C2_WaitsStep ==
    ServedStep =>
        \A l \in Range(controller'.lane_ids) :
            /\ controller'.lanes[l].wait =
                  IF Some(l) = controller'.current_green THEN 0 ELSE WaitBefore(l) + 1
            /\ response'.output[l].wait = controller'.lanes[l].wait

\* C2: in every decide cycle the chosen lane's wait becomes 0 and the wait of
\* every other registered lane becomes its value before the cycle plus 1.
C2_Waits == [][C2_WaitsStep]_vars

\* A chosen while B has waited two cycles and C one
C2_Witness ==
    /\ Served
    /\ controller.lane_ids = <<"A", "B", "C">>
    /\ controller.current_green = Some("A")
    /\ controller.lanes["A"].wait = 0
    /\ controller.lanes["B"].wait = 2
    /\ controller.lanes["C"].wait = 1

\* C3: when some lane reports an emergency, the lane opened is one of those
\* with the largest emergency count, whatever the normal counts, the waits
\* and the time left to the green lane.
C3_EmergencyFirst ==
    (Served /\ ~NoEmergencyIn(lanes_data)) =>
        \A i \in 1..Len(lanes_data) :
            lanes_data[i].emergency
                <= ReqOf(lanes_data, controller.current_green[1]).emergency

\* what C4 says of one step
C4_StarvedServedStep ==
    (ServedStep /\ ~ResetStep) =>
        \A l \in Range(controller.lane_ids) :
            ( /\ controller.lanes[l].wait = starvation_limit
              /\ \A i \in 1..Len(lanes_data') :
                    lanes_data'[i].lane_id # l => lanes_data'[i].emergency = 0 )
            => controller'.current_green = Some(l)

\* C4: a lane whose wait has reached starvation_limit is opened in the next
\* cycle in which no other lane reports an emergency, whatever the queues.
C4_StarvedServed == [][C4_StarvedServedStep]_vars

\* C5: the allotted green duration the controller stores, and the one the
\* report carries for the green lane, lie within [min_green, max_green].
C5_GreenTimeInRange ==
    controller # NoController =>
        /\ ~Below(controller.current_green_time, <<min_green, 0>>)
        /\ ~Below(<<max_green, 0>>, controller.current_green_time)
        /\ Served =>
              response.output[controller.current_green[1]].green_time
                  = controller.current_green_time

\* C is opened after waiting at least two cycles with two vehicles: the raw
\* duration is positive but below min_green, and min_green is allotted
C5_Witness ==
    /\ Served
    /\ controller.lane_ids = <<"A", "B", "C">>
    /\ controller.current_green = Some("C")
    /\ ReqOf(lanes_data, "C").normal = 2
    /\ controller.lanes["A"].wait = 1
    /\ controller.lanes["B"].wait = 2
    /\ controller.current_green_time = <<min_green, 0>>

\* what C6 says of one step
C6_RoundRobinStep ==
    (ServedStep /\ Cardinality(TiedLanes(lanes_data')) >= 2) =>
        LET T == TiedLanes(lanes_data')
            ids == controller'.lane_ids
            memory == IF ResetStep THEN None ELSE controller.last_emergency_lane
            ch == controller'.current_green
        IN /\ \E l \in T : ch = Some(l)
           /\ \A l \in T :
                 ScanDistance(ids, memory, ch) <= ScanDistance(ids, memory, Some(l))
           /\ (~ResetStep /\ TiedLanes(lanes_data) = T) =>
                 /\ ch # controller.current_green
                 /\ \A l \in { x \in T : Some(x) # controller.current_green } :
                       ScanDistance(ids, controller.current_green, ch)
                           <= ScanDistance(ids, controller.current_green, Some(l))

\* C6: with two or more lanes tied at the largest positive emergency count,
\* the lane opened is the first tied lane of a circular scan of the
\* registration order that starts right after the last emergency lane (at
\* position 1 without such a memory); while the same lanes stay tied on one
\* controller they are opened in rotation.
C6_RoundRobin == [][C6_RoundRobinStep]_vars

\* what C7 says of one step
C7_CarveOutStep ==
    (ServedStep /\ NoEmergencyIn(lanes_data')) =>
        IF GreenNotElapsed
        THEN controller'.current_green = controller.current_green
        ELSE IsSelectorResult(controller'.current_green[1])

\* C7: without emergency, the green lane is kept while the time elapsed since
\* its green-phase start is strictly below the allotted duration; otherwise
\* (no green lane, or elapsed >= allotted) the result of the Fairness
\* Selector is opened.
C7_CarveOut == [][C7_CarveOutStep]_vars

\* what C8 says of one step
C8_FairnessStep ==
    (ServedStep /\ NoEmergencyIn(lanes_data') /\ ~GreenNotElapsed) =>
        /\ IsFairnessChoice(controller'.current_green[1])
        /\ (ResetStep /\ \A i \in 1..Len(lanes_data') : lanes_data'[i].normal = 0)
              => controller'.current_green = Some(controller'.lane_ids[1])

\* C8: when the Fairness Selector decides, it opens the lane of maximal
\* score normal * (1 + wait * 0.4) + (1000 if wait >= 8), the earliest
\* registered one among equals; a fresh controller with empty queues opens
\* the lane in position 1.
C8_Fairness == [][C8_FairnessStep]_vars

\* what C9 says of one step
C9_ResetStep ==
    ServedStep =>
        LET ld == lanes_data'
            ch == controller'.current_green[1]
            r == ReqOf(ld, ch)
            raw == 4 * r.normal + 20 * r.emergency
        IN IF ResetStep
           THEN /\ controller'.lane_ids = [i \in 1..Len(ld) |-> ld[i].lane_id]
                /\ current_lanes' = controller'.lane_ids
                /\ DOMAIN controller'.lanes = ReqLanes(ld)
                /\ \A l \in ReqLanes(ld) :
                      /\ controller'.lanes[l].wait = (IF l = ch THEN 0 ELSE 1)
                      /\ controller'.lanes[l].state = (IF l = ch THEN Green ELSE Red)
                      /\ controller'.lanes[l].emergency = 0
                /\ \A l \in ReqLanes(ld) \ {ch} : controller'.lanes[l].state # Green
                /\ NoEmergencyIn(ld) => controller'.last_emergency_lane = None
                /\ Decisions(controller') = FreshDecisions(ld, now')
                /\ controller'.current_green_time[1]
                      = (IF raw < 30 THEN 30 ELSE IF raw > 120 THEN 120 ELSE raw)
           ELSE /\ controller'.lane_ids = controller.lane_ids
                /\ current_lanes' = current_lanes
                /\ \A l \in ReqLanes(ld) \ {ch} :
                      controller'.lanes[l].wait = controller.lanes[l].wait + 1
                /\ NoEmergencyIn(ld) =>
                      controller'.last_emergency_lane = controller.last_emergency_lane

\* C9: a request whose lane set differs from the known one is decided by a
\* brand-new controller (waits 0, all Red, no green lane, no emergency
\* memory before the decision); a request on the known set keeps the state.
C9_Reset == [][C9_ResetStep]_vars

\* three lanes are registered late in the run: B is opened for its queue, A
\* and C have waited one cycle, and no emergency lane is remembered
C9_Witness ==
    /\ Served
    /\ now = 61
    /\ current_lanes = <<"A", "B", "C">>
    /\ controller.current_green = Some("B")
    /\ controller.last_emergency_lane = None
    /\ controller.lanes["A"].wait = 1
    /\ controller.lanes["C"].wait = 1

\* C10: a request with no lanes is answered with an empty report.
C10_EmptyReport ==
    (Len(lanes_data) = 0 /\ response.status # "none") =>
        response = [status |-> "success", output |-> EmptyMap]


\* the allotted duration, in tenths of a second, for a lane with n queued
\* vehicles, e emergency vehicles and w cycles of waiting:
\* n / 2.5 + w * 0.4 + e * 2.0 seconds, limited to [3, 12] seconds
Clamped(n, w, e) ==
    LET raw == (10 * n * 10) \div 25 + 4 * w + 20 * e
    IN IF raw < 30 THEN 30 ELSE IF raw > 120 THEN 120 ELSE raw

\* what C12 says of one step
C12_GreenTimeStep ==
    ServedStep =>
        LET ch == controller'.current_green[1]
            r == ReqOf(lanes_data', ch)
            w == WaitBefore(ch)
        IN /\ controller'.current_green_time =
                 << Clamped(r.normal, w, r.emergency),
                    GreenRounding([normal |-> r.normal, wait |-> w,
                                   emergency |-> r.emergency]) >>
           /\ (r.normal = 2 /\ r.emergency = 0 /\ w = 0)
                 => controller'.current_green_time = <<30, 0>>
           /\ (r.normal = 0 /\ r.emergency = 0 /\ w = 0)
                 => controller'.current_green_time = <<min_green, 0>>

\* C12: the allotted green duration is exactly
\* clamp(normal / clearance_rate + wait * 0.4 + emergency * 2.0, min_green,
\* max_green) for the chosen lane; a lane with two vehicles, no emergency and
\* no wait gets 3.0 s, and an all-zero lane gets min_green.
C12_GreenTime == [][C12_GreenTimeStep]_vars

\* B is opened for two emergency vehicles after one cycle of waiting:
\* 0 / 2.5 + 1 * 0.4 + 2 * 2.0 = 4.4 s
C12_Witness ==
    /\ Served
    /\ controller.lane_ids = <<"A", "B">>
    /\ controller.current_green = Some("B")
    /\ ReqOf(lanes_data, "B") = [lane_id |-> "B", normal |-> 0, emergency |-> 2]
    /\ controller.lanes["A"].wait = 1
    /\ controller.current_green_time = <<44, 0>>


\* what C13 says of one step
C13_FlowStep ==
    ServedStep =>
        LET ch == controller'.current_green[1]
            gt == controller'.current_green_time
        IN \A l \in Range(controller'.lane_ids) :
              LET n == ReqOf(lanes_data', l).normal
                  capacity == Capacity(gt)
                  stored == controller'.lanes[l].normal
              IN IF l = ch
                 THEN /\ stored = n - (IF n < capacity THEN n ELSE capacity)
                      /\ stored >= 0
                 ELSE stored - n \in 0..3

\* C13: after a cycle the stored normal count of the chosen lane is the
\* supplied count minus min(count, floor(clearance_rate * green_time)), never
\* negative, and the stored count of every other lane is the supplied count
\* plus an increment in 0..3, whatever was stored before.
C13_Flow == [][C13_FlowStep]_vars

\* A reports 40 vehicles and keeps 10 after a 12 s green phase that clears
\* 30; B, which has waited two cycles, reports 2 and stores 2 + 1
C13_Witness ==
    /\ Served
    /\ controller.current_green = Some("A")
    /\ ReqOf(lanes_data, "A").normal = 40
    /\ controller.current_green_time = <<max_green, 0>>
    /\ controller.lanes["A"].normal = 10
    /\ ReqOf(lanes_data, "B").normal = 2
    /\ controller.lanes["B"].normal = 3
    /\ controller.lanes["B"].wait = 2


\* what C16 says of one step
C16_MemoryStep ==
    ServedStep =>
        LET memory == IF ResetStep THEN None ELSE controller.last_emergency_lane
        IN /\ controller'.last_emergency_lane =
                 IF NoEmergencyIn(lanes_data') THEN memory
                 ELSE controller'.current_green
           /\ ~ResetStep =>
                 /\ controller'.lane_ids = controller.lane_ids
                 /\ DOMAIN controller'.lanes = DOMAIN controller.lanes

\* C16: the last-emergency-lane memory of a controller is the lane chosen in
\* its most recent cycle with an emergency on some lane, tie or not, and None
\* before the first such cycle: a cycle with an emergency sets it to the lane
\* opened, a cycle without emergency leaves it as it is, and the registered
\* lanes stay what they are.
C16_Memory == [][C16_MemoryStep]_vars

\* what C17 says of one step
C17_RestartStep ==
    ServedStep =>
        LET ch == controller'.current_green[1]
            r == ReqOf(lanes_data', ch)
        IN /\ controller'.green_started_at = now'
           /\ (GreenOnRecord /\ Some(ch) = controller.current_green) =>
                 controller'.current_green_time[1] = Clamped(r.normal, 0, r.emergency)
           /\ ( /\ NoEmergencyIn(lanes_data')
                /\ GreenOnRecord
                /\ now' - controller.green_started_at < min_green ) =>
                 /\ Some(ch) = controller.current_green
                 /\ \A l \in Range(controller.lane_ids) \ {ch} :
                       controller'.lanes[l].wait = controller.lanes[l].wait + 1

\* C17: every cycle sets the green-phase start to the current instant and
\* computes the allotted duration anew, also when it keeps the green lane;
\* so while no lane reports an emergency and each call comes less than
\* min_green after the one before, the same lane is opened in every cycle
\* and the wait of every other lane goes up by one, at and past
\* starvation_limit as well.
C17_Restart == [][C17_RestartStep]_vars

\* C18: after a served cycle current_green names a registered lane, which is
\* the only lane whose phase is Green and the only lane whose wait is 0;
\* every other lane has wait >= 1; and the report carries green_time for
\* that lane alone, equal to the stored current_green_time.
C18_GreenPointer ==
    Served =>
        LET g == controller.current_green
        IN /\ IsIn(g, controller.lane_ids)
           /\ \A l \in Range(controller.lane_ids) :
                 /\ controller.lanes[l].state = Green <=> Some(l) = g
                 /\ controller.lanes[l].wait = 0 <=> Some(l) = g
                 /\ Some(l) # g => controller.lanes[l].wait >= 1
                 /\ "green_time" \in DOMAIN response.output[l] <=> Some(l) = g
           /\ response.output[g[1]].green_time = controller.current_green_time

\* B is green with a phase of min_green; A and C, red, have waited one and
\* two cycles and their report entries carry no green_time
C18_Witness ==
    /\ Served
    /\ controller.lane_ids = <<"A", "B", "C">>
    /\ controller.current_green = Some("B")
    /\ controller.lanes["A"].wait = 1
    /\ controller.lanes["C"].wait = 2
    /\ DOMAIN response.output["A"] = {"state", "wait"}
    /\ DOMAIN response.output["C"] = {"state", "wait"}
    /\ response.output["B"].green_time = <<min_green, 0>>


\* what C19 says of one step
C19_WaitBonusStep ==
    (ServedStep /\ ~ResetStep) =>
        LET ch == controller'.current_green[1]
            r == ReqOf(lanes_data', ch)
            w == controller.lanes[ch].wait
            without == 4 * r.normal + 20 * r.emergency
        IN /\ controller'.lanes[ch].wait = 0
           /\ (without >= min_green /\ without + 4 * w <= max_green) =>
                 controller'.current_green_time[1] = without + 4 * w

\* C19: the duration of a cycle counts the wait the chosen lane had when the
\* cycle began: a lane opened after waiting w cycles gets 0.4 * w seconds on
\* top of its clearance and emergency time (within the limits), although
\* its stored wait is 0 once the duration has been computed.
C19_WaitBonus == [][C19_WaitBonusStep]_vars

\* C is opened for two emergency vehicles after two cycles of waiting:
\* 2 * 2.0 + 2 * 0.4 = 4.8 s, and its wait is 0
C19_Witness ==
    /\ Served
    /\ controller.lane_ids = <<"A", "B", "C">>
    /\ controller.current_green = Some("C")
    /\ ReqOf(lanes_data, "C") = [lane_id |-> "C", normal |-> 0, emergency |-> 2]
    /\ controller.lanes["C"].wait = 0
    /\ controller.current_green_time = <<48, 0>>


\* C20: the lane map GET /status returns, like the one the controller
\* holds, has emergency 0 for every lane whatever the requests carried;
\* each lane's entry has the fields normal, emergency, wait and state.
C20_EmergencyZero ==
    /\ \A l \in DOMAIN observed :
          /\ observed[l].emergency = 0
          /\ DOMAIN observed[l] = {"normal", "emergency", "wait", "state"}
    /\ controller # NoController =>
          \A l \in DOMAIN controller.lanes : controller.lanes[l].emergency = 0

\* /status is read right after B was opened for two emergency vehicles
\* while A, itself with an emergency vehicle, has waited two cycles
C20_Witness ==
    /\ Served
    /\ observed = controller.lanes
    /\ ReqOf(lanes_data, "A").emergency = 1
    /\ ReqOf(lanes_data, "B").emergency = 2
    /\ observed["B"].state = Green
    /\ observed["B"].emergency = 0
    /\ observed["A"].wait = 2
    /\ observed["A"].emergency = 0


\* C14: two runs fed the same requests at the same instants agree in every
\* cycle on the lane opened, the allotted duration, the phases and the
\* waits, whatever random increments each of them drew.
C14_Deterministic == Decisions(controller) = Decisions(twin)

\* the two runs hold different normal counts for A, which has been red for
\* two cycles, and both have B green
C14_Witness ==
    /\ Served
    /\ controller.current_green = Some("B")
    /\ twin.current_green = Some("B")
    /\ controller.lanes["A"].wait = 2
    /\ controller.lanes["A"].normal # twin.lanes["A"].normal
    /\ controller.lanes["B"].normal = twin.lanes["B"].normal


\* the classification of embedding emb fails or yields no label: the
\* classifier is missing, raises, or returns the empty label
NoLabelFor(emb) ==
    \/ classifier = None
    \/ classifier[1][emb] \in {Raised, <<>>}

\* detection d ends without label: the caller sent none, and its embedding
\* is not classified, or it has no embedding and its crop is missing, does
\* not decode, or is not classified
Unlabelled(d) ==
    /\ d.pred_label \in {None, Some(<<>>)}
    /\ \/ d.embedding # None /\ NoLabelFor(d.embedding[1])
       \/ d.embedding = None /\ d.crop_base64 \in {None, Some(""), Some("c_garbage")}
       \/ d.embedding = None /\ d.crop_base64 = Some("c_image") /\ NoLabelFor("e_crop")

\* C15: once aggregate_counts has returned, the lane input names exactly the
\* lanes of the detections, each once; for every lane normal + emergency is
\* the number of its detections, and every detection left without label is
\* among the normal ones.
C15_NoVehicleLost ==
    ml_counts # None =>
    LET counts == ml_counts[1]
        At(l) == { i \in 1..Len(detections) : detections[i].lane_id = Some(l) }
    IN /\ { Some(counts[j].lane_id) : j \in 1..Len(counts) }
             = { detections[i].lane_id : i \in 1..Len(detections) } \ {None}
       /\ \A j, k \in 1..Len(counts) :
             counts[j].lane_id = counts[k].lane_id => j = k
       /\ \A j \in 1..Len(counts) :
             LET c == counts[j]
             IN /\ c.normal + c.emergency = Cardinality(At(c.lane_id))
                /\ c.emergency >= 0
                /\ c.normal >= Cardinality({ i \in At(c.lane_id) : Unlabelled(detections[i]) })

\* a classifier that raises on the embedding e_fire: an ambulance labelled
\* by the caller and a detection with that embedding, both on lane A, have
\* been counted as one emergency and one normal vehicle
C15_Witness ==
    /\ classifier # None
    /\ classifier[1]["e_fire"] = Raised
    /\ Len(detections) = 2
    /\ detections[1] = DetectedBox(Some("A"), Some(Ambulance), None, None)
    /\ detections[2] = DetectedBox(Some("A"), Some(<<>>), Some("e_fire"), None)
    /\ ml_counts = Some(<<[lane_id |-> "A", normal |-> 1, emergency |-> 1]>>)


\* C11: whatever way /update requests and /status reads interleave, the lane
\* map a /status read returns has no Yellow lane and at most one Green lane.
C11_Serialized ==
    /\ \A l \in DOMAIN observed : observed[l].state # Yellow
    /\ Cardinality({ l \in DOMAIN observed : observed[l].state = Green }) <= 1

====
